---- MODULE Spec2Model ----
(***************************************************************************)
(* A model of conda/connection.py: the CondaSession constructor with its   *)
(* mount table, the LocalFSAdapter (file://) and the S3Adapter (s3://).    *)
(*                                                                         *)
(*   Spec      the session constructor and the local-file adapter;         *)
(*   SpecS3    one S3Adapter instance used by one caller, every send and   *)
(*             close running to completion before the next starts;         *)
(*   SpecConc  one S3Adapter instance shared by several threads, send cut  *)
(*             at the points where it touches self._temp_file.             *)
(***************************************************************************)
EXTENDS Integers, Sequences, FiniteSets

VARIABLES
    files,        \* the local filesystem: path -> [kind, data, mtime]
    handles,      \* file objects opened by LocalFSAdapter.send: <<[path, open]>>
    localResp,    \* outcome of the last LocalFSAdapter.send
    session,      \* the CondaSession last constructed
    temp_file,    \* S3Adapter._temp_file (None, or the number of a temp file)
    nextTemp,     \* how many temporary files tempfile.mkstemp has created
    tempDisk,     \* the temporary files present on disk
    tmpHandles,   \* file objects opened by S3Adapter.send: <<[temp, open]>>
    s3Resp,       \* outcome of the last S3Adapter.send
    closeResult,  \* outcome of the last S3Adapter.close
    sys_modules,  \* whether boto has been imported by this process
    pc,           \* SpecConc: where each thread stands inside S3Adapter.send
    own,          \* SpecConc: the temp file each thread's mkstemp created
    written,      \* SpecConc: the temp file each thread downloaded into
    opened,       \* SpecConc: the temp file each thread opened as its body
    status,       \* SpecConc: how each thread's last send ended
    last          \* the operation that ran last

vars == <<files, handles, localResp, session, temp_file, nextTemp, tempDisk,
          tmpHandles, s3Resp, closeResult, sys_modules, pc, own, written, opened, status,
          last>>

localVars == <<files, handles, localResp>>
s3Vars    == <<temp_file, nextTemp, tempDisk, tmpHandles, s3Resp, closeResult,
               sys_modules>>
concVars  == <<pc, own, written, opened, status>>

-----------------------------------------------------------------------------
(* Bounds of the model.                                                    *)

MaxLen == 1        \* longest file content, in bytes
MaxOpen == 2       \* file objects one run of the local adapter opens
MaxRetries == 2    \* largest explicit retry count passed to CondaSession
MaxTemp == 3       \* temporary files one run creates

RETRIES == 3

None == "None"

\* self._temp_file = None
NoTempFile == 0
Bytes == {0, 1}
Contents == UNION {[1..n -> Bytes] : n \in 0..MaxLen}
Paths == {"/a.json", "/b"}
Threads == {1, 2}  \* the threads that share one S3Adapter in SpecConc
MTimes == {1}      \* modification times of the local files
Sizes == {0, 1}    \* sizes of the stored S3 objects

-----------------------------------------------------------------------------
(* Responses (requests.models.Response as the adapters fill it in).        *)

NoHeaders == <<>>
NoRaw == [kind |-> "None"]
ExcRaw(e) == [kind |-> "exc", type |-> e]
FileRaw(h) == [kind |-> "file", h |-> h]

\* requests.models.Response() followed by status_code = 200 and url = request.url
NewResponse(u) ==
    [outcome |-> "returned", status_code |-> 200, url |-> u,
     headers |-> NoHeaders, raw |-> NoRaw]

\* an exception that leaves send: the caller receives no response
Raised(u, e) ==
    [outcome |-> "raised", status_code |-> 0, url |-> u,
     headers |-> NoHeaders, raw |-> ExcRaw(e)]

NoResponse ==
    [outcome |-> "none", status_code |-> 0, url |-> None,
     headers |-> NoHeaders, raw |-> NoRaw]

Headers(ct, cl, lm) ==
    [ContentType |-> ct, ContentLength |-> cl, LastModified |-> lm]

-----------------------------------------------------------------------------
(* LocalFSAdapter.                                                         *)

\* a path is missing, in a directory that may not be searched
\* ("stat_denied"), a file that may not be read ("unreadable"), or a
\* readable file ("ok")
FileRecs ==
    {[kind |-> k, data |-> <<>>, mtime |-> 0] : k \in {"missing", "stat_denied"}}
    \cup [kind : {"unreadable", "ok"}, data : Contents, mtime : MTimes]

FileUrl(p) == <<"file", p>>
url_to_path(u) == u[2]

\* os.stat(pathname) raises OSError for a missing path or a directory that
\* may not be searched
StatFails(f) == f.kind \in {"missing", "stat_denied"}

\* open(pathname, "rb") raises for a file that may not be read
OpenFails(f) == f.kind # "ok"

st_size(f) == Len(f.data)

formatdate(t) == <<"GMT", t>>

guess_type(p) == IF p = "/a.json" THEN "application/json" ELSE None

LocalContentType(p) ==
    IF guess_type(p) = None THEN "text/plain" ELSE guess_type(p)

\* (mutant: the except branch forgets resp.status_code = 404)
LocalStatErrorRespMut(u) ==
    [NewResponse(u) EXCEPT !.raw = ExcRaw("OSError")]

\* the response of the except branch of os.stat
LocalStatErrorResp(u) ==
    [NewResponse(u) EXCEPT !.status_code = 404,
                           !.raw = ExcRaw("OSError")]

\* (mutant: the header is taken from the wrong field of the stat result)
LocalContentLengthMut(f) == f.mtime

\* the Content-Length header of a local file
LocalContentLength(f) == st_size(f)

LocalOkResp(u, f, h) ==
    [NewResponse(u) EXCEPT
        !.headers = Headers(LocalContentType(url_to_path(u)),
                            LocalContentLength(f),
                            formatdate(f.mtime)),
        !.raw = FileRaw(h)]

\* what a full read of a local file object yields
ReadLocal(h) == files[handles[h].path].data

LocalFSAdapterSend(u) ==
    LET pathname == url_to_path(u)
        f == files[pathname]
        h == Len(handles) + 1
    IN  /\ Len(handles) < MaxOpen
        /\ IF StatFails(f)
             THEN /\ localResp' = [req |-> u, resp |-> LocalStatErrorResp(u)]
                  /\ handles' = handles
             ELSE IF OpenFails(f)
                    THEN /\ localResp' = [req |-> u, resp |-> Raised(u, "IOError")]
                         /\ handles' = handles
                    ELSE /\ localResp' = [req |-> u, resp |-> LocalOkResp(u, f, h)]
                         /\ handles' = Append(handles,
                                              [path |-> pathname, open |-> TRUE])
        /\ last' = "LocalFSAdapter.send"
        /\ UNCHANGED <<files, session, s3Vars, concVars>>

\* resp.close is resp.raw.close: closing a 200 response closes its file object
LocalResponseClose ==
    /\ localResp.resp.outcome = "returned"
    /\ localResp.resp.raw.kind = "file"
    /\ handles' = [handles EXCEPT ![localResp.resp.raw.h].open = FALSE]
    /\ last' = "LocalResponse.close"
    /\ UNCHANGED <<files, localResp, session, s3Vars, concVars>>

\* LocalFSAdapter.close is `pass`
LocalFSAdapterClose ==
    /\ last' = "LocalFSAdapter.close"
    /\ UNCHANGED <<localVars, session, s3Vars, concVars>>

-----------------------------------------------------------------------------
(* CondaSession.                                                           *)

\* the values a caller passes as retries=: nothing, None, False or a count
RetryArgs ==
    {<<"absent", 0>>, <<"None", 0>>, <<"bool", 0>>}
    \cup {<<"int", n>> : n \in 0..MaxRetries}

\* kwargs.pop('retries', RETRIES)
PopRetries(arg) == IF arg[1] = "absent" THEN <<"int", RETRIES>> ELSE arg

\* (mutant: `if retries is not None:`)
RetriesEnabledMut(r) == r[1] # "None"

\* `if retries:`
RetriesEnabled(r) == r[1] = "int" /\ r[2] # 0

HTTPAdapter(id, n) == [kind |-> "HTTPAdapter", id |-> id, max_retries |-> n]
LocalFSAdapterNew == [kind |-> "LocalFSAdapter", id |-> "file", max_retries |-> 0]
S3AdapterNew == [kind |-> "S3Adapter", id |-> "s3", max_retries |-> 0]

Prefixes(tbl) == {tbl[i][1] : i \in DOMAIN tbl}

\* Session.mount: self.adapters[prefix] = adapter
mount(tbl, prefix, adapter) ==
    IF prefix \in Prefixes(tbl)
      THEN [i \in DOMAIN tbl |->
              IF tbl[i][1] = prefix THEN <<prefix, adapter>> ELSE tbl[i]]
      ELSE Append(tbl, <<prefix, adapter>>)

\* the adapters mounted on a prefix
Mounted(tbl, prefix) == {tbl[i][2] : i \in {j \in DOMAIN tbl : tbl[j][1] = prefix}}

\* requests.Session.__init__: a default HTTPAdapter (no retries) per prefix
BaseAdapters ==
    mount(mount(<<>>, "https://", HTTPAdapter("default-https", 0)),
          "http://", HTTPAdapter("default-http", 0))

RetryMounts(tbl, r) ==
    LET http_adapter == HTTPAdapter("retry", r[2]) IN
    IF RetriesEnabled(r)
      THEN mount(mount(tbl, "http://", http_adapter), "https://", http_adapter)
      ELSE tbl

SchemeMounts(tbl) ==
    mount(mount(tbl, "file://", LocalFSAdapterNew), "s3://", S3AdapterNew)

NoSession ==
    [built |-> FALSE, arg |-> <<"absent", 0>>, adapters |-> <<>>,
     proxies |-> "empty", verify |-> TRUE, user_agent |-> None]

\* context.ssl_verify
ssl_verify == TRUE

\* CondaSession(retries=arg) with context.proxy_servers = proxies
CondaSessionInit(arg, proxies) ==
    LET retries == PopRetries(arg) IN
    /\ session' = [built |-> TRUE,
                   arg |-> arg,
                   adapters |-> SchemeMounts(RetryMounts(BaseAdapters, retries)),
                   proxies |-> proxies,
                   verify |-> ssl_verify,
                   user_agent |-> "conda"]
    /\ last' = "CondaSession.__init__"
    /\ UNCHANGED <<localVars, s3Vars, concVars>>

-----------------------------------------------------------------------------
(* S3Adapter, one call at a time.                                          *)

Keys == {"bucket/k1", "bucket/k2"}
S3Url(k) == <<"s3", k>>

\* what bucket.get_key(key_string) does in one call: raise S3ResponseError,
\* return None, return a key whose exists flag is false, or return the key
\* of a stored object
KeyOutcomes ==
    {[kind |-> k, size |-> 0, content_type |-> None, last_modified |-> None] :
        k \in {"S3ResponseError", "no_key", "not_exists"}}
    \cup [kind : {"key"}, size : Sizes,
          content_type : {None, "application/x-tar"},
          last_modified : {"Thu, 01 Jan 2015"}]

\* one outcome of each kind: all that the steps up to mkstemp look at
LookupOutcomes ==
    {o \in KeyOutcomes : o.size = 0 /\ o.content_type = None}

\* (mutant: `if key:`)
KeyFoundMut(o) == o.kind \in {"key", "not_exists"}

\* `if key and key.exists:`
KeyFound(o) == o.kind = "key"

\* (mutant: the ImportError branch returns without resp.status_code = 404)
ImportErrorRespMut(u) == NewResponse(u)

\* the response of the ImportError branch
ImportErrorResp(u) == [NewResponse(u) EXCEPT !.status_code = 404]

S3ErrorResp(u) ==
    [NewResponse(u) EXCEPT !.status_code = 404,
                           !.raw = ExcRaw("S3ResponseError")]

S3MissingResp(u) == [NewResponse(u) EXCEPT !.status_code = 404]

S3ContentType(o) ==
    IF o.content_type = None THEN "text/plain" ELSE o.content_type

S3Headers(o) == Headers(S3ContentType(o), o.size, o.last_modified)

S3OkResp(u, o, h) ==
    [NewResponse(u) EXCEPT !.headers = S3Headers(o), !.raw = FileRaw(h)]

\* `import boto` of one call: a module that was imported once stays in
\* sys.modules, so the import cannot fail after it has succeeded
ImportPossible(boto) == sys_modules => boto

\* S3Adapter.send(request): boto says whether `import boto` succeeds in this
\* call, o is what the key lookup of this call does
S3AdapterSend(boto, u, o) ==
    LET t == nextTemp + 1
        h == Len(tmpHandles) + 1
    IN  /\ ImportPossible(boto)
        /\ sys_modules' = (sys_modules \/ boto)
        /\ IF ~boto
             THEN /\ s3Resp' = [req |-> u, resp |-> ImportErrorResp(u), boto |-> boto, o |-> o]
                  /\ UNCHANGED <<temp_file, nextTemp, tempDisk, tmpHandles>>
             ELSE IF o.kind = "S3ResponseError"
                    THEN /\ s3Resp' = [req |-> u, resp |-> S3ErrorResp(u), boto |-> boto, o |-> o]
                         /\ UNCHANGED <<temp_file, nextTemp, tempDisk, tmpHandles>>
                    ELSE IF KeyFound(o)
                           THEN /\ nextTemp < MaxTemp
                                /\ nextTemp' = t
                                /\ temp_file' = t
                                /\ tempDisk' = tempDisk \cup {t}
                                /\ tmpHandles' = Append(tmpHandles,
                                                        [temp |-> t, open |-> TRUE])
                                /\ s3Resp' = [req |-> u, resp |-> S3OkResp(u, o, h),
                                              boto |-> boto, o |-> o]
                           ELSE /\ s3Resp' = [req |-> u, resp |-> S3MissingResp(u),
                                              boto |-> boto, o |-> o]
                                /\ UNCHANGED <<temp_file, nextTemp, tempDisk,
                                               tmpHandles>>
        /\ closeResult' = closeResult
        /\ last' = "S3Adapter.send"
        /\ UNCHANGED <<localVars, session, concVars>>

\* resp.close is resp.raw.close: the file object is closed, nothing is removed
S3ResponseClose ==
    /\ s3Resp.resp.outcome = "returned"
    /\ s3Resp.resp.raw.kind = "file"
    /\ tmpHandles' = [tmpHandles EXCEPT ![s3Resp.resp.raw.h].open = FALSE]
    /\ last' = "S3Response.close"
    /\ UNCHANGED <<temp_file, nextTemp, tempDisk, s3Resp, closeResult,
                   sys_modules, localVars, session, concVars>>

\* S3Adapter.close: `if self._temp_file: os.remove(self._temp_file)`;
\* os.remove raises OSError when the file is no longer there
S3AdapterClose ==
    /\ IF temp_file = NoTempFile
         THEN /\ closeResult' = "ok"
              /\ tempDisk' = tempDisk
         ELSE IF temp_file \in tempDisk
                THEN /\ closeResult' = "ok"
                     /\ tempDisk' = tempDisk \ {temp_file}
                ELSE /\ closeResult' = "raised"
                     /\ tempDisk' = tempDisk
    /\ last' = "S3Adapter.close"
    /\ UNCHANGED <<temp_file, nextTemp, tmpHandles, s3Resp, sys_modules,
                   localVars, session, concVars>>

-----------------------------------------------------------------------------
(* S3Adapter.send cut into the steps between which another thread that     *)
(* shares the adapter can run: everything up to tempfile.mkstemp(), the    *)
(* assignment to self._temp_file, the download into self._temp_file and    *)
(* the open of self._temp_file.                                            *)

\* (mutant: every fetch keeps the path of its own temporary file)
RecordedPathMut(t) == own[t]

\* the reads of self._temp_file in get_contents_to_filename and in open
RecordedPath(t) == temp_file

\* up to tempfile.mkstemp(): the import, the key lookup and, for a key that
\* exists, a new empty file of its own; nothing another thread reads is
\* touched
ConcLookup(t, boto, o) ==
    /\ pc[t] = "idle"
    /\ ImportPossible(boto)
    /\ sys_modules' = (sys_modules \/ boto)
    /\ IF boto /\ o.kind # "S3ResponseError" /\ KeyFound(o)
         THEN /\ nextTemp < MaxTemp
              /\ nextTemp' = nextTemp + 1
              /\ tempDisk' = tempDisk \cup {nextTemp + 1}
              /\ own' = [own EXCEPT ![t] = nextTemp + 1]
              /\ pc' = [pc EXCEPT ![t] = "record"]
              /\ status' = [status EXCEPT ![t] = "running"]
         ELSE /\ UNCHANGED <<nextTemp, tempDisk, pc>>
              /\ own' = [own EXCEPT ![t] = NoTempFile]
              /\ status' = [status EXCEPT ![t] = "404"]
    /\ written' = [written EXCEPT ![t] = NoTempFile]
    /\ opened' = [opened EXCEPT ![t] = NoTempFile]
    /\ last' = "S3Adapter.send"
    /\ UNCHANGED <<localVars, session, temp_file, tmpHandles, s3Resp, closeResult>>

\* _, self._temp_file = <the result of mkstemp>
ConcRecord(t) ==
    /\ pc[t] = "record"
    /\ temp_file' = own[t]
    /\ pc' = [pc EXCEPT ![t] = "download"]
    /\ last' = "S3Adapter.send"
    /\ UNCHANGED <<localVars, session, nextTemp, tempDisk, tmpHandles, s3Resp,
                   closeResult, sys_modules, own, written, opened, status>>

\* key.get_contents_to_filename(self._temp_file): the file is opened for
\* writing, which creates it when it is not there
ConcDownload(t) ==
    /\ pc[t] = "download"
    /\ written' = [written EXCEPT ![t] = RecordedPath(t)]
    /\ tempDisk' = tempDisk \cup {RecordedPath(t)}
    /\ pc' = [pc EXCEPT ![t] = "open"]
    /\ last' = "S3Adapter.send"
    /\ UNCHANGED <<localVars, session, temp_file, nextTemp, tmpHandles, s3Resp,
                   closeResult, sys_modules, own, opened, status>>

\* f = open(self._temp_file, 'rb'), which raises when the file is not there
ConcOpen(t) ==
    /\ pc[t] = "open"
    /\ IF RecordedPath(t) \in tempDisk
         THEN /\ opened' = [opened EXCEPT ![t] = RecordedPath(t)]
              /\ status' = [status EXCEPT ![t] = "200"]
         ELSE /\ opened' = opened
              /\ status' = [status EXCEPT ![t] = "raised"]
    /\ pc' = [pc EXCEPT ![t] = "idle"]
    /\ last' = "S3Adapter.send"
    /\ UNCHANGED <<localVars, session, s3Vars, own, written>>

-----------------------------------------------------------------------------
(* Specifications.                                                         *)

InitAdapters ==
    /\ handles = <<>>
    /\ localResp = [req |-> FileUrl("/b"), resp |-> NoResponse]
    /\ session = NoSession
    /\ temp_file = NoTempFile
    /\ nextTemp = 0
    /\ tempDisk = {}
    /\ tmpHandles = <<>>
    /\ s3Resp = [req |-> S3Url("bucket/k1"), resp |-> NoResponse, boto |-> FALSE,
                 o |-> [kind |-> "no_key", size |-> 0, content_type |-> None,
                        last_modified |-> None]]
    /\ closeResult = "none"
    /\ sys_modules = FALSE
    /\ pc = [t \in Threads |-> "idle"]
    /\ own = [t \in Threads |-> NoTempFile]
    /\ written = [t \in Threads |-> NoTempFile]
    /\ opened = [t \in Threads |-> NoTempFile]
    /\ status = [t \in Threads |-> "none"]
    /\ last = "init"

\* any local filesystem
Init ==
    /\ files \in [Paths -> FileRecs]
    /\ InitAdapters

\* the S3 adapter never looks at the local files of the file:// adapter
InitS3 ==
    /\ files = [p \in Paths |-> [kind |-> "missing", data |-> <<>>, mtime |-> 0]]
    /\ InitAdapters

Next ==
    \/ \E arg \in RetryArgs, proxies \in {"empty", "set"} :
          CondaSessionInit(arg, proxies)
    \/ \E p \in Paths : LocalFSAdapterSend(FileUrl(p))
    \/ LocalResponseClose
    \/ LocalFSAdapterClose

NextS3 ==
    \/ \E boto \in BOOLEAN, k \in Keys, o \in KeyOutcomes :
          S3AdapterSend(boto, S3Url(k), o)
    \/ S3ResponseClose
    \/ S3AdapterClose

\* both scheme adapters of one session, each called to completion
NextSends ==
    \/ \E p \in Paths : LocalFSAdapterSend(FileUrl(p))
    \/ \E boto \in BOOLEAN, k \in Keys, o \in KeyOutcomes :
          S3AdapterSend(boto, S3Url(k), o)

NextConc ==
    \/ \E t \in Threads, boto \in BOOLEAN, o \in LookupOutcomes :
          ConcLookup(t, boto, o)
    \/ \E t \in Threads : ConcRecord(t)
    \/ \E t \in Threads : ConcDownload(t)
    \/ \E t \in Threads : ConcOpen(t)
    \/ S3AdapterClose

Spec == Init /\ [][Next]_vars
SpecS3 == InitS3 /\ [][NextS3]_vars
SpecSends == Init /\ [][NextSends]_vars
SpecConc == InitS3 /\ [][NextConc]_vars

-----------------------------------------------------------------------------
(* The claims.                                                             *)

\* the file the last file:// request names
LocalTarget == files[url_to_path(localResp.req)]

\* C1: a file:// request for a file that exists and can be read is answered
\* with status 200, the request's URL, a Content-Length equal to the size of
\* the file and a body whose full read is the content of the file; the file
\* object is open when send returns and closed once the response is closed.
C1_LocalFileServed ==
    (localResp.resp.outcome # "none" /\ LocalTarget.kind = "ok") =>
        LET r == localResp.resp IN
        /\ r.outcome = "returned"
        /\ r.status_code = 200
        /\ r.url = localResp.req
        /\ r.raw.kind = "file"
        /\ r.headers.ContentLength = Len(LocalTarget.data)
        /\ ReadLocal(r.raw.h) = LocalTarget.data
        /\ (last = "LocalFSAdapter.send" => handles[r.raw.h].open)
        /\ (last = "LocalResponse.close" => ~handles[r.raw.h].open)

\* C1 happens: a non-empty file was served and its response closed
C1_Witness ==
    /\ last = "LocalResponse.close"
    /\ LocalTarget.kind = "ok"
    /\ Len(LocalTarget.data) >= 1
    /\ localResp.resp.status_code = 200
    /\ ReadLocal(localResp.resp.raw.h) = LocalTarget.data
    /\ ~handles[localResp.resp.raw.h].open

\* C2 (as claimed): whenever the stat or the open of the target of a file://
\* request fails, send returns a 404 response that carries the error in raw,
\* and no file object on the target is left open.
C2_Claim ==
    (localResp.resp.outcome # "none" /\ LocalTarget.kind # "ok") =>
        /\ localResp.resp.outcome = "returned"
        /\ localResp.resp.status_code = 404
        /\ localResp.resp.raw.kind = "exc"
        /\ \A i \in DOMAIN handles :
              handles[i].path # url_to_path(localResp.req)

\* C3: a send during which boto cannot be imported returns status 404
\* without a body, creates no temporary file and leaves self._temp_file as
\* it was, on every call.
C3_NoBoto404 ==
    [][(last' = "S3Adapter.send" /\ ~s3Resp'.boto) =>
          /\ s3Resp'.resp.outcome = "returned"
          /\ s3Resp'.resp.status_code = 404
          /\ s3Resp'.resp.url = s3Resp'.req
          /\ s3Resp'.resp.raw.kind # "file"
          /\ UNCHANGED <<temp_file, nextTemp, tempDisk, tmpHandles>>]_vars

\* C3 happens: a send without boto has returned
C3_Witness ==
    /\ last = "S3Adapter.send"
    /\ ~s3Resp.boto
    /\ s3Resp.o.kind = "key"
    /\ s3Resp.resp.status_code = 404
    /\ tempDisk = {}

\* C4: with boto imported, a send whose key lookup raises S3ResponseError or
\* finds no existing key returns status 404 (with the error in raw when one
\* was raised), creates no temporary file and leaves self._temp_file as it
\* was.
C4_S3Failure404 ==
    [][(/\ last' = "S3Adapter.send"
        /\ s3Resp'.boto
        /\ s3Resp'.o.kind \in {"S3ResponseError", "no_key", "not_exists"}) =>
          /\ s3Resp'.resp.outcome = "returned"
          /\ s3Resp'.resp.status_code = 404
          /\ (s3Resp'.o.kind = "S3ResponseError"
                => s3Resp'.resp.raw = ExcRaw("S3ResponseError"))
          /\ s3Resp'.resp.raw.kind # "file"
          /\ UNCHANGED <<temp_file, nextTemp, tempDisk, tmpHandles>>]_vars

\* C4 happens: a failed lookup after an earlier fetch whose temporary file is
\* still recorded and on disk
C4_Witness ==
    /\ last = "S3Adapter.send"
    /\ s3Resp.boto
    /\ s3Resp.o.kind = "not_exists"
    /\ s3Resp.resp.status_code = 404
    /\ temp_file # NoTempFile
    /\ temp_file \in tempDisk

\* the temporary file behind the body of the last S3 response
S3BodyFile == tmpHandles[s3Resp.resp.raw.h].temp

\* C5 (as claimed): after a successful fetch the temporary file is gone once
\* the response has been closed, and gone once the adapter has been closed.
C5_Claim ==
    (s3Resp.resp.outcome = "returned" /\ s3Resp.resp.status_code = 200) =>
        /\ (last = "S3Response.close" => S3BodyFile \notin tempDisk)
        /\ (last = "S3Adapter.close" => S3BodyFile \notin tempDisk)

\* C6: on a shared adapter every fetch records its temporary file in the one
\* field self._temp_file, overwriting what another fetch recorded, and then
\* downloads into and opens whatever that field holds at that moment; close
\* removes at most the one file the field names.
C6_SharedTempPath ==
    [][\A t \in Threads :
          /\ (pc[t] = "record" /\ pc'[t] = "download") => temp_file' = own[t]
          /\ (pc[t] = "download" /\ pc'[t] = "open") => written'[t] = temp_file
          /\ (pc[t] = "open" /\ pc'[t] = "idle" /\ status'[t] = "200")
                => opened'[t] = temp_file
          /\ (last' = "S3Adapter.close")
                => (tempDisk \ tempDisk') \subseteq {temp_file}]_vars

\* C6 happens: one fetch downloaded into and opened the temporary file of
\* the other, and close removed that file and left the first one on disk
C6_Witness ==
    \E t, u \in Threads :
        /\ t # u
        /\ status[t] = "200" /\ status[u] = "200"
        /\ own[t] # NoTempFile /\ own[u] # NoTempFile
        /\ written[t] = own[u] /\ opened[t] = own[u]
        /\ last = "S3Adapter.close" /\ closeResult = "ok"
        /\ own[u] \notin tempDisk
        /\ own[t] \in tempDisk

\* the retry count a constructor argument stands for
C7_Count(arg) ==
    IF arg[1] = "absent" THEN RETRIES ELSE IF arg[1] = "int" THEN arg[2] ELSE 0

\* C7: a session built with a falsy retry count keeps the plain adapters on
\* http:// and https://; built with a positive count N it has one and the
\* same adapter with N retries on both; file:// and s3:// are mounted either
\* way, and no prefix is in the mount table twice.
C7_Mounts ==
    session.built =>
        LET tbl == session.adapters
            n == C7_Count(session.arg)
        IN  /\ \A i, j \in DOMAIN tbl : tbl[i][1] = tbl[j][1] => i = j
            /\ Prefixes(tbl) = {"http://", "https://", "file://", "s3://"}
            /\ Mounted(tbl, "file://") = {LocalFSAdapterNew}
            /\ Mounted(tbl, "s3://") = {S3AdapterNew}
            /\ n = 0 => \A p \in {"http://", "https://"} :
                           \A a \in Mounted(tbl, p) :
                               a.id # "retry" /\ a.max_retries = 0
            /\ n > 0 => /\ Mounted(tbl, "http://") = {HTTPAdapter("retry", n)}
                        /\ Mounted(tbl, "https://") = {HTTPAdapter("retry", n)}

\* C7 happens: a session built with an explicit positive retry count
C7_Witness ==
    /\ session.built
    /\ session.arg = <<"int", MaxRetries>>
    /\ Mounted(session.adapters, "https://") = {HTTPAdapter("retry", MaxRetries)}

\* a response as send returned it, hs being the file objects behind bodies
C8_WellFormed(r, hs) ==
    r.outcome = "returned" =>
        /\ r.status_code \in {200, 404}
        /\ (r.status_code = 200) <=>
              (/\ r.raw.kind = "file"
               /\ hs[r.raw.h].open
               /\ DOMAIN r.headers =
                     {"ContentType", "ContentLength", "LastModified"})
        /\ (r.status_code = 404) => r.raw.kind \in {"None", "exc"}

\* C8: a response returned by either adapter has status 200 or 404; it has
\* status 200 exactly when raw is an open file object and the three headers
\* are set; a 404 response has nothing or the error in raw.
C8_Statuses ==
    /\ C8_WellFormed(localResp.resp, handles)
    /\ C8_WellFormed(s3Resp.resp, tmpHandles)

\* C8 happens: a 404 from the local adapter and a 200 from the S3 adapter
C8_Witness ==
    /\ localResp.resp.outcome = "returned"
    /\ localResp.resp.status_code = 404
    /\ s3Resp.resp.outcome = "returned"
    /\ s3Resp.resp.status_code = 200

\* C9 (as claimed): after sends that ran one after the other, one close
\* leaves no temporary file on disk.
C9_Claim == last = "S3Adapter.close" => tempDisk = {}

\* C10 (as claimed): close never raises, and after close self._temp_file
\* does not name a file that close has removed.
C10_Claim ==
    /\ closeResult # "raised"
    /\ last = "S3Adapter.close" =>
          (temp_file = NoTempFile \/ temp_file \in tempDisk)

====
